---- MODULE Spec2Model ----
(***************************************************************************)
(* Model of scripts/jar_marker.py: the tainting pass (taint_jar), the      *)
(* extraction pass (generate_tiny) and the process-wide REGISTRY they      *)
(* share.                                                                  *)
(*                                                                         *)
(* Strings are sequences of symbols.  The reserved literals of the code    *)
(* are cut into the symbols its prefix / suffix / substring tests need,    *)
(* so startsWith, endsWith, contains, split and replace are computed on    *)
(* the sequences and are not assumed.                                      *)
(*                                                                         *)
(* The bytes of an archive entry are modelled by what ClassReader makes of *)
(* them: either a class tree (cls = TRUE) or a payload ClassReader rejects *)
(* (cls = FALSE).  ClassWriter.toByteArray gives back the bytes of a tree. *)
(*                                                                         *)
(* uuid.uuid4() is modelled as a source of fresh values: the k-th call of  *)
(* the process returns a value no earlier call returned.                   *)
(*                                                                         *)
(* Two parts of scripts/mcjar.py have specifications of their own at the   *)
(* end of the module: the download cache (CacheSpec) and the search of the *)
(* most recent yarn version (YarnSpec).                                    *)
(***************************************************************************)
EXTENDS Integers, Sequences, FiniteSets, TLC

VARIABLES
    REGISTRY,     \* jar_marker.REGISTRY: classes / methods / fields dicts
    uuidCalls,    \* number of uuid.uuid4() calls made by the process so far
    fs,           \* the archives on disk, by path
    tinyFile,     \* content of output_tiny_path (sequence of lines)
    pc,           \* "idle", "taint" (inside taint_jar), "extract" (inside generate_tiny)
    zin,          \* the archive opened for reading by the running pass
    zout,         \* the archive being written by taint_jar
    pos,          \* index in zin.infolist() / z.namelist() of the next entry
    tiny_lines,   \* generate_tiny's list of lines
    calls,        \* number of taint_jar / generate_tiny calls started
    hist          \* history of the session (observations only, never read by the code)

vars == <<REGISTRY, uuidCalls, fs, tinyFile, pc, zin, zout, pos, tiny_lines, calls, hist>>

\* scripts/mcjar.py: the download cache and the search of the yarn versions
VARIABLES
    storage,      \* STORAGE_DIR on disk: the cache directories and their files
    dcall,        \* the download_cached call that is running, if any
    returned,     \* what the download_cached calls have returned so far
    downloads,    \* number of download_cached calls started
    yarn          \* the arguments and the result of get_most_recent_yarn_url

mcvars == <<storage, dcall, returned, downloads, yarn>>

(***************************************************************************)
(* Bounds of the model.                                                    *)
(***************************************************************************)
MaxEntries == 2
MaxCalls == 2

(***************************************************************************)
(* Python / Java string operations, on sequences of symbols.               *)
(***************************************************************************)
startsWith(s, p) == Len(p) <= Len(s) /\ SubSeq(s, 1, Len(p)) = p

endsWith(s, p) == Len(p) <= Len(s) /\ SubSeq(s, Len(s) - Len(p) + 1, Len(s)) = p

\* index of the first occurrence of p in s, 0 when there is none
find(s, p) ==
    LET hits == {k \in 1..(Len(s) - Len(p) + 1) : SubSeq(s, k, k + Len(p) - 1) = p}
    IN  IF hits = {} THEN 0 ELSE CHOOSE k \in hits : \A h \in hits : k <= h

contains(s, p) == find(s, p) # 0

\* s.split(p)[1]: the text between the first occurrence of p and the next one
splitAt1(s, p) ==
    LET rest == SubSeq(s, find(s, p) + Len(p), Len(s))
        nxt  == find(rest, p)
    IN  IF nxt = 0 THEN rest ELSE SubSeq(rest, 1, nxt - 1)

\* s.replace(c, "") for a one-symbol c
replaceNone(s, c) == SelectSeq(s, LAMBDA x : x # c)

\* sep.join(parts)
RECURSIVE join(_, _)
join(sep, parts) ==
    IF parts = <<>> THEN <<>>
    ELSE IF Len(parts) = 1 THEN parts[1]
    ELSE parts[1] \o sep \o join(sep, Tail(parts))

(***************************************************************************)
(* Literals of the code.                                                   *)
(***************************************************************************)
MCP_UUID == <<"__MCP_UUID__">>                 \* "__MCP_UUID__"
MCP == <<"$$mcp">>                             \* "$$mcp"
MCP_TRACE == <<"$$mcp", "_trace_">>            \* "$$mcp_trace_"
LT == <<"<">>                                  \* "<"
DOT_CLASS == <<".class">>                      \* ".class"
TAB == <<"\t">>
STRING_DESC == <<"Ljava/lang/String;">>
VOID_DESC == <<"()V">>
None == <<"None">>                             \* Python None / Java null
TINY_HEADER == <<"v1">> \o TAB \o <<"official">> \o TAB \o <<"named">>

\* Python truthiness of a string-or-None value
truthy(v) == v # None /\ v # <<>>

(***************************************************************************)
(* uuid.uuid4() and its renderings.                                        *)
(***************************************************************************)
\* variant: a source that repeats itself
uuid4Repeating(k) == (k % 2) + 1

\* the value of the k-th uuid4() call of the process
uuid4(k) == k

\* str(uuid): groups of hex digits separated by hyphens
uuidStr(u) == <<"h" \o ToString(u), "-", "h" \o ToString(u)>>

(***************************************************************************)
(* ASM tree nodes.                                                         *)
(***************************************************************************)
FieldNode(access, name, desc, value) ==
    [access |-> access, name |-> name, desc |-> desc, value |-> value]

MethodNode(access, name, desc) ==
    [access |-> access, name |-> name, desc |-> desc,
     instructions |-> <<>>, tryCatchBlocks |-> <<>>, localVariables |-> <<>>]

InsnNode(opcode) ==
    [kind |-> "InsnNode", opcode |-> opcode, owner |-> <<>>, name |-> <<>>,
     desc |-> <<>>, cst |-> <<>>]

FieldInsnNode(opcode, owner, name, desc) ==
    [kind |-> "FieldInsnNode", opcode |-> opcode, owner |-> owner, name |-> name,
     desc |-> desc, cst |-> <<>>]

LdcInsnNode(cst) ==
    [kind |-> "LdcInsnNode", opcode |-> "LDC", owner |-> <<>>, name |-> <<>>,
     desc |-> <<>>, cst |-> cst]

TypeInsnNode(opcode, type) ==
    [kind |-> "TypeInsnNode", opcode |-> opcode, owner |-> <<>>, name |-> <<>>,
     desc |-> type, cst |-> <<>>]

MethodInsnNode(opcode, owner, name, desc) ==
    [kind |-> "MethodInsnNode", opcode |-> opcode, owner |-> owner, name |-> name,
     desc |-> desc, cst |-> <<>>]

ClassNode(name, fields, methods) ==
    [name |-> name, fields |-> fields, methods |-> methods]

NoClass == ClassNode(<<>>, <<>>, <<>>)

\* bytes ClassReader accepts: the bytes of a class tree (ClassWriter.toByteArray)
toByteArray(cn) == [cls |-> TRUE, cn |-> cn, raw |-> <<>>]

\* bytes ClassReader rejects
RawBytes(raw) == [cls |-> FALSE, cn |-> NoClass, raw |-> raw]

\* d[k] = v on a Python dict
dictSet(d, k, v) == [x \in (DOMAIN d) \cup {k} |-> IF x = k THEN v ELSE d[x]]

EmptyDict == [x \in {} |-> None]

EmptyRegistry == [classes |-> EmptyDict, methods |-> EmptyDict, fields |-> EmptyDict]

(***************************************************************************)
(* zipfile.                                                                *)
(***************************************************************************)
ZipEntry(filename, data) == [filename |-> filename, data |-> data]

\* ZipFile.read(name): the archive is looked up BY NAME, and of several
\* entries of one name the directory keeps the last
zipRead(z, filename) ==
    LET at == {k \in 1..Len(z) : z[k].filename = filename}
    IN  z[CHOOSE k \in at : \A h \in at : h <= k].data

\* ZipFile.namelist()
namelist(z) == [k \in 1..Len(z) |-> z[k].filename]

(***************************************************************************)
(* PHASE 1: TAINTING.  The steps of taint_jar on one parsed class.  A step *)
(* takes and gives a record S = [cn, reg, k]: the class tree, REGISTRY and *)
(* the number of uuid4() calls made.                                       *)
(***************************************************************************)
\* str(uuid.uuid4()): the next uuid of the process, rendered with hyphens
nextUuidStr(k) == uuidStr(uuid4(k + 1))

\* variant: the marker's value is a uid of its own, not the recorded one
markClassOtherUid(S) ==
    LET c_uid == nextUuidStr(S.k)
        trace_field == FieldNode({"ACC_PUBLIC", "ACC_STATIC", "ACC_FINAL"},
                                 MCP_UUID, STRING_DESC, nextUuidStr(S.k + 1))
    IN  [cn  |-> [S.cn EXCEPT !.fields = Append(@, trace_field)],
         reg |-> [S.reg EXCEPT !.classes = dictSet(@, c_uid, [name |-> S.cn.name])],
         k   |-> S.k + 2]

\* 1. MARK CLASS (Static Field)
markClass(S) ==
    LET c_uid == nextUuidStr(S.k)
        trace_field == FieldNode({"ACC_PUBLIC", "ACC_STATIC", "ACC_FINAL"},
                                 MCP_UUID, STRING_DESC, c_uid)
    IN  [cn  |-> [S.cn EXCEPT !.fields = Append(@, trace_field)],
         reg |-> [S.reg EXCEPT !.classes = dictSet(@, c_uid, [name |-> S.cn.name])],
         k   |-> S.k + 1]

\* variant: the field loop passes over no field
skipsNoField(field) == FALSE

\* the fields the field loop passes over
skipsField(field) == field.name = MCP_UUID

\* variant: a null reference is pushed before every read, static or not
traceBodyNullFirst(owner, field) ==
    LET is_static == "ACC_STATIC" \in field.access
        opcode == IF is_static THEN "GETSTATIC" ELSE "GETFIELD"
    IN  <<InsnNode("ACONST_NULL"),
          FieldInsnNode(opcode, owner, field.name, field.desc),
          InsnNode("POP"), InsnNode("RETURN")>>

\* the body of the synthetic method that reads one field
traceBody(owner, field) ==
    LET is_static == "ACC_STATIC" \in field.access
        opcode == IF is_static THEN "GETSTATIC" ELSE "GETFIELD"
    IN  (IF ~is_static THEN <<InsnNode("ACONST_NULL")>> ELSE <<>>)
        \o <<FieldInsnNode(opcode, owner, field.name, field.desc),
             InsnNode("POP"), InsnNode("RETURN")>>

\* 2. MARK FIELDS (Via Synthetic Methods): the loop over original_fields
RECURSIVE markFields(_, _, _, _)
markFields(S, original_owner, original_fields, j) ==
    IF j > Len(original_fields) THEN S
    ELSE LET field == original_fields[j] IN
         IF skipsField(field) THEN markFields(S, original_owner, original_fields, j + 1)
         ELSE LET f_uid == replaceNone(nextUuidStr(S.k), "-")
                  mw == [MethodNode({"ACC_PUBLIC", "ACC_STATIC"}, MCP_TRACE \o f_uid, VOID_DESC)
                            EXCEPT !.instructions = traceBody(S.cn.name, field)]
              IN  markFields(
                    [cn  |-> [S.cn EXCEPT !.methods = Append(@, mw)],
                     reg |-> [S.reg EXCEPT !.fields =
                                dictSet(@, f_uid, [owner |-> original_owner,
                                                   name  |-> field.name,
                                                   desc  |-> field.desc])],
                     k   |-> S.k + 1],
                    original_owner, original_fields, j + 1)

\* variant: abstract methods are not passed over
skipsMethodButAbstract(method) ==
    \/ startsWith(method.name, LT)
    \/ startsWith(method.name, MCP)
    \/ "ACC_NATIVE" \in method.access

\* the methods the method loop passes over
skipsMethod(method) ==
    \/ startsWith(method.name, LT)
    \/ startsWith(method.name, MCP)
    \/ "ACC_ABSTRACT" \in method.access
    \/ "ACC_NATIVE" \in method.access

\* variant: the uid constant is pushed twice
throwBodyLoadingTwice(m_uid) ==
    << TypeInsnNode("NEW", <<"java/lang/Error">>),
       InsnNode("DUP"),
       LdcInsnNode(m_uid),
       InsnNode("POP"),
       LdcInsnNode(m_uid),
       MethodInsnNode("INVOKESPECIAL", <<"java/lang/Error">>, <<"<", "init>">>,
                      <<"(Ljava/lang/String;)V">>),
       InsnNode("ATHROW") >>

\* the body every tainted method gets
throwBody(m_uid) ==
    << TypeInsnNode("NEW", <<"java/lang/Error">>),
       InsnNode("DUP"),
       LdcInsnNode(m_uid),
       MethodInsnNode("INVOKESPECIAL", <<"java/lang/Error">>, <<"<", "init>">>,
                      <<"(Ljava/lang/String;)V">>),
       InsnNode("ATHROW") >>

\* variant: the handler table and the local-variable table are kept
RECURSIVE markMethodsKeepingTables(_, _, _)
markMethodsKeepingTables(S, original_owner, j) ==
    IF j > Len(S.cn.methods) THEN S
    ELSE LET method == S.cn.methods[j] IN
         IF skipsMethod(method) THEN markMethodsKeepingTables(S, original_owner, j + 1)
         ELSE LET m_uid == nextUuidStr(S.k)
                  tainted == [method EXCEPT !.instructions = throwBody(m_uid)]
              IN  markMethodsKeepingTables(
                    [cn  |-> [S.cn EXCEPT !.methods[j] = tainted],
                     reg |-> [S.reg EXCEPT !.methods =
                                dictSet(@, m_uid, [owner |-> original_owner,
                                                   name  |-> method.name,
                                                   desc  |-> method.desc])],
                     k   |-> S.k + 1],
                    original_owner, j + 1)

\* 3. MARK METHODS (Body Replacement): the loop over cn.methods
RECURSIVE markMethods(_, _, _)
markMethods(S, original_owner, j) ==
    IF j > Len(S.cn.methods) THEN S
    ELSE LET method == S.cn.methods[j] IN
         IF skipsMethod(method) THEN markMethods(S, original_owner, j + 1)
         ELSE LET m_uid == nextUuidStr(S.k)
                  tainted == [method EXCEPT !.instructions = throwBody(m_uid),
                                            !.tryCatchBlocks = <<>>,
                                            !.localVariables = <<>>]
              IN  markMethods(
                    [cn  |-> [S.cn EXCEPT !.methods[j] = tainted],
                     reg |-> [S.reg EXCEPT !.methods =
                                dictSet(@, m_uid, [owner |-> original_owner,
                                                   name  |-> method.name,
                                                   desc  |-> method.desc])],
                     k   |-> S.k + 1],
                    original_owner, j + 1)

\* the three steps on one class, in the order of the code
taintClass(cn, reg, k) ==
    LET original_owner == cn.name
        S1 == markClass([cn |-> cn, reg |-> reg, k |-> k])
        S2 == markFields(S1, original_owner, S1.cn.fields, 1)
    IN  markMethods(S2, original_owner, 1)

\* what taint_jar writes for a class entry ClassReader rejected, and for an
\* entry that is no class
passThrough(item, bytes_in) == ZipEntry(item.filename, bytes_in)

\* one turn of the loop over zin.infolist(): the entry written to zout, and
\* the registry and uuid count afterwards
taintItem(z, item, reg, k) ==
    LET bytes_in == zipRead(z, item.filename) IN
    IF ~endsWith(item.filename, DOT_CLASS)
    THEN [out |-> passThrough(item, bytes_in), reg |-> reg, k |-> k]
    ELSE IF ~bytes_in.cls
    THEN [out |-> passThrough(item, bytes_in), reg |-> reg, k |-> k]
    ELSE LET S == taintClass(bytes_in.cn, reg, k)
         IN  [out |-> ZipEntry(item.filename, toByteArray(S.cn)), reg |-> S.reg, k |-> S.k]

(***************************************************************************)
(* PHASE 2: EXTRACTION.  The steps of generate_tiny on one parsed class.   *)
(***************************************************************************)
\* the first instruction of a kind in an instruction list, None-like <<>> when absent
firstInsn(instructions, kind) ==
    LET at == {k \in 1..Len(instructions) : instructions[k].kind = kind}
    IN  IF at = {} THEN <<>>
        ELSE <<instructions[CHOOSE k \in at : \A h \in at : k <= h]>>

\* 1. RESOLVE CLASSES: the value of the first field whose name ends with the marker
findClassUid(cn) ==
    LET at == {k \in 1..Len(cn.fields) : endsWith(cn.fields[k].name, MCP_UUID)}
    IN  IF at = {} THEN None
        ELSE cn.fields[CHOOSE k \in at : \A h \in at : k <= h].value

classLine(original_c_name, mapped_c_name) ==
    <<"CLASS">> \o TAB \o original_c_name \o TAB \o mapped_c_name

\* variant: the owner column is the owner of the field's registry record
fieldLineRecordOwner(original_c_name, orig_f_data, mapped_f_name) ==
    <<"FIELD">> \o TAB \o orig_f_data.owner \o TAB \o orig_f_data.desc
                \o TAB \o orig_f_data.name \o TAB \o mapped_f_name

\* variant: the descriptor column is left out
fieldLineNoDesc(original_c_name, orig_f_data, mapped_f_name) ==
    <<"FIELD">> \o TAB \o original_c_name
                \o TAB \o orig_f_data.name \o TAB \o mapped_f_name

fieldLine(original_c_name, orig_f_data, mapped_f_name) ==
    <<"FIELD">> \o TAB \o original_c_name \o TAB \o orig_f_data.desc
                \o TAB \o orig_f_data.name \o TAB \o mapped_f_name

\* variant: the current-name column repeats the registry's name
methodLineOriginalName(original_c_name, orig_m_data, method_name) ==
    <<"METHOD">> \o TAB \o original_c_name \o TAB \o orig_m_data.desc
                 \o TAB \o orig_m_data.name \o TAB \o orig_m_data.name

methodLine(original_c_name, orig_m_data, method_name) ==
    <<"METHOD">> \o TAB \o original_c_name \o TAB \o orig_m_data.desc
                 \o TAB \o orig_m_data.name \o TAB \o method_name

\* variant: the field loop ends at the first probe method that gives no line
RECURSIVE resolveFieldsUntilMiss(_, _, _, _)
resolveFieldsUntilMiss(cn, reg, original_c_name, j) ==
    IF j > Len(cn.methods) THEN <<>>
    ELSE LET method == cn.methods[j]
             rest == resolveFieldsUntilMiss(cn, reg, original_c_name, j + 1)
         IN  IF ~contains(method.name, MCP_TRACE) THEN rest
             ELSE LET f_uid == splitAt1(method.name, MCP_TRACE)
                      insn == firstInsn(method.instructions, "FieldInsnNode")
                  IN  IF insn # <<>> /\ f_uid \in DOMAIN reg.fields
                      THEN <<fieldLine(original_c_name, reg.fields[f_uid], insn[1].name)>> \o rest
                      ELSE <<>>

\* variant: the field loop runs over cn.methods from the last to the first
RECURSIVE resolveFieldsReversed(_, _, _, _)
resolveFieldsReversed(cn, reg, original_c_name, j) ==
    IF j > Len(cn.methods) THEN <<>>
    ELSE LET method == cn.methods[j]
             rest == resolveFieldsReversed(cn, reg, original_c_name, j + 1)
         IN  IF ~contains(method.name, MCP_TRACE) THEN rest
             ELSE LET f_uid == splitAt1(method.name, MCP_TRACE)
                      insn == firstInsn(method.instructions, "FieldInsnNode")
                  IN  IF insn # <<>> /\ f_uid \in DOMAIN reg.fields
                      THEN rest \o <<fieldLine(original_c_name, reg.fields[f_uid], insn[1].name)>>
                      ELSE rest

\* 2. RESOLVE FIELDS: the lines of the loop over cn.methods
RECURSIVE resolveFields(_, _, _, _)
resolveFields(cn, reg, original_c_name, j) ==
    IF j > Len(cn.methods) THEN <<>>
    ELSE LET method == cn.methods[j]
             rest == resolveFields(cn, reg, original_c_name, j + 1)
         IN  IF ~contains(method.name, MCP_TRACE) THEN rest
             ELSE LET f_uid == splitAt1(method.name, MCP_TRACE)
                      insn == firstInsn(method.instructions, "FieldInsnNode")
                  IN  IF insn # <<>> /\ f_uid \in DOMAIN reg.fields
                      THEN <<fieldLine(original_c_name, reg.fields[f_uid], insn[1].name)>> \o rest
                      ELSE rest

\* 3. RESOLVE METHODS: the lines of the loop over cn.methods
RECURSIVE resolveMethods(_, _, _, _)
resolveMethods(cn, reg, original_c_name, j) ==
    IF j > Len(cn.methods) THEN <<>>
    ELSE LET method == cn.methods[j]
             rest == resolveMethods(cn, reg, original_c_name, j + 1)
             insn == firstInsn(method.instructions, "LdcInsnNode")
         IN  IF insn # <<>> /\ insn[1].cst \in DOMAIN reg.methods
             THEN <<methodLine(original_c_name, reg.methods[insn[1].cst], method.name)>> \o rest
             ELSE rest

\* variant: the method loop runs before the field loop
resolveClassMethodsFirst(cn, reg) ==
    LET c_uid == findClassUid(cn) IN
    IF ~truthy(c_uid) THEN <<>>
    ELSE IF c_uid \notin DOMAIN reg.classes THEN <<>>
    ELSE LET original_c_name == reg.classes[c_uid].name
         IN  <<classLine(original_c_name, cn.name)>>
             \o resolveMethods(cn, reg, original_c_name, 1)
             \o resolveFields(cn, reg, original_c_name, 1)

\* variant: the field and method loops also run for a class that was skipped
resolveClassUnguarded(cn, reg) ==
    LET c_uid == findClassUid(cn)
        known == truthy(c_uid) /\ c_uid \in DOMAIN reg.classes
        original_c_name == IF known THEN reg.classes[c_uid].name ELSE cn.name
    IN  (IF known THEN <<classLine(original_c_name, cn.name)>> ELSE <<>>)
        \o resolveFields(cn, reg, original_c_name, 1)
        \o resolveMethods(cn, reg, original_c_name, 1)

\* the lines one parsed class adds to tiny_lines
resolveClass(cn, reg) ==
    LET c_uid == findClassUid(cn) IN
    IF ~truthy(c_uid) THEN <<>>
    ELSE IF c_uid \notin DOMAIN reg.classes THEN <<>>
    ELSE LET original_c_name == reg.classes[c_uid].name
         IN  <<classLine(original_c_name, cn.name)>>
             \o resolveFields(cn, reg, original_c_name, 1)
             \o resolveMethods(cn, reg, original_c_name, 1)

\* one turn of the loop over z.namelist(): the lines added to tiny_lines
extractItem(z, filename, reg) ==
    IF ~endsWith(filename, DOT_CLASS) THEN <<>>
    ELSE LET bytes_in == zipRead(z, filename)
         IN  IF ~bytes_in.cls THEN <<>> ELSE resolveClass(bytes_in.cn, reg)

(***************************************************************************)
(* The external mapper (not part of the repository): a renaming of class   *)
(* a to b, of its field x to x2 and of its method go to run, which updates *)
(* the references to them and leaves every other name and every constant   *)
(* as it is.                                                               *)
(***************************************************************************)
mapClassName(n) == IF n = <<"a">> THEN <<"b">> ELSE n

mapFieldName(owner, n) == IF owner = <<"a">> /\ n = <<"x">> THEN <<"x2">> ELSE n

mapMethodName(owner, n) == IF owner = <<"a">> /\ n = <<"go">> THEN <<"run">> ELSE n

mapInsn(insn) ==
    IF insn.kind = "FieldInsnNode"
    THEN [insn EXCEPT !.owner = mapClassName(insn.owner),
                      !.name = mapFieldName(insn.owner, insn.name)]
    ELSE insn

mapClass(cn) ==
    ClassNode(mapClassName(cn.name),
              [k \in 1..Len(cn.fields) |->
                  [cn.fields[k] EXCEPT !.name = mapFieldName(cn.name, @)]],
              [k \in 1..Len(cn.methods) |->
                  [cn.methods[k] EXCEPT
                      !.name = mapMethodName(cn.name, @),
                      !.instructions = [q \in 1..Len(@) |-> mapInsn(@[q])]]])

mapper(z) ==
    [k \in 1..Len(z) |->
        IF z[k].data.cls
        THEN ZipEntry(z[k].filename, toByteArray(mapClass(z[k].data.cn)))
        ELSE z[k]]

\* a second external tool: a shrinker that drops the fields named like the
\* marker and changes nothing else
shrinkClass(cn) ==
    [cn EXCEPT !.fields = SelectSeq(@, LAMBDA f : f.name # MCP_UUID)]

shrinker(z) ==
    [k \in 1..Len(z) |->
        IF z[k].data.cls
        THEN ZipEntry(z[k].filename, toByteArray(shrinkClass(z[k].data.cn)))
        ELSE z[k]]

\* a third external tool: an instrumenter that puts the load of a string
\* constant of its own, and its pop, in front of every method body
instrumentClass(cn) ==
    [cn EXCEPT !.methods =
        [k \in 1..Len(@) |->
            IF @[k].instructions = <<>> THEN @[k]
            ELSE [@[k] EXCEPT !.instructions =
                    <<LdcInsnNode(<<"log">>), InsnNode("POP")>> \o @]]]

instrumenter(z) ==
    [k \in 1..Len(z) |->
        IF z[k].data.cls
        THEN ZipEntry(z[k].filename, toByteArray(instrumentClass(z[k].data.cn)))
        ELSE z[k]]

\* a fourth external tool: a class merger that moves the methods of the
\* second entry's class into the first entry's class
merger(z) ==
    IF Len(z) >= 2 /\ z[1].data.cls /\ z[2].data.cls
    THEN [k \in 1..Len(z) |->
            IF k = 1
            THEN ZipEntry(z[1].filename,
                          toByteArray([z[1].data.cn EXCEPT
                                          !.methods = @ \o z[2].data.cn.methods]))
            ELSE IF k = 2
            THEN ZipEntry(z[2].filename,
                          toByteArray([z[2].data.cn EXCEPT !.methods = <<>>]))
            ELSE z[k]]
    ELSE z

Tools == {"mapper", "shrinker", "instrumenter", "merger"}

runTool(tool, z) ==
    CASE tool = "mapper" -> mapper(z)
      [] tool = "shrinker" -> shrinker(z)
      [] tool = "instrumenter" -> instrumenter(z)
      [] OTHER -> merger(z)

(***************************************************************************)
(* Input archives.                                                         *)
(***************************************************************************)
IntField(access, name) == FieldNode(access, name, <<"I">>, None)

\* a concrete method with a body, a handler and a local variable of its own
Concrete(name) ==
    [MethodNode({"ACC_PUBLIC"}, name, VOID_DESC) EXCEPT
        !.instructions = <<LdcInsnNode(<<"hello">>), InsnNode("POP"), InsnNode("RETURN")>>,
        !.tryCatchBlocks = <<"handler">>,
        !.localVariables = <<"this">>]

\* class a: static int x, instance String y, method go()V
ClassA ==
    ClassNode(<<"a">>,
              <<IntField({"ACC_PUBLIC", "ACC_STATIC"}, <<"x">>),
                FieldNode({"ACC_PRIVATE"}, <<"y">>, STRING_DESC, None)>>,
              <<Concrete(<<"go">>)>>)

\* class s: a constructor, an abstract and a native method, a method whose
\* name starts with $$mcp, and a method run()V
ClassS ==
    ClassNode(<<"s">>, <<>>,
              <<Concrete(<<"<", "init>">>),
                MethodNode({"ACC_PUBLIC", "ACC_ABSTRACT"}, <<"abs">>, VOID_DESC),
                MethodNode({"ACC_PUBLIC", "ACC_NATIVE"}, <<"nat">>, VOID_DESC),
                Concrete(<<"$$mcp", "x">>),
                Concrete(<<"run">>)>>)

\* class m: a field that is not the marker and whose name ends with it
ClassM ==
    ClassNode(<<"m">>, <<IntField({"ACC_PRIVATE"}, <<"z", "__MCP_UUID__">>)>>,
              <<Concrete(<<"go">>)>>)

\* class d as an earlier process tainted it: its uids are in no registry
ClassD ==
    taintClass(ClassNode(<<"d">>, <<IntField({"ACC_PUBLIC", "ACC_STATIC"}, <<"w">>)>>,
                         <<Concrete(<<"go">>)>>),
               EmptyRegistry, 100).cn

\* class t: a method whose name holds a tab (the class file format allows
\* any character but . ; [ / < > in a method name), and a method that has
\* the name of a probe and reads no field
ClassT ==
    ClassNode(<<"t">>, <<>>,
              <<Concrete(<<"f", "\t", "g">>),
                Concrete(<<"$$mcp", "_trace_", "q">>)>>)

EntryPool ==
    { ZipEntry(<<"a", ".class">>, toByteArray(ClassA)),
      ZipEntry(<<"t", ".class">>, toByteArray(ClassT)),
      ZipEntry(<<"a", ".class">>, RawBytes(<<"garbage">>)),
      ZipEntry(<<"s", ".class">>, toByteArray(ClassS)),
      ZipEntry(<<"m", ".class">>, toByteArray(ClassM)),
      ZipEntry(<<"d", ".class">>, toByteArray(ClassD)),
      ZipEntry(<<"r", ".txt">>, RawBytes(<<"one">>)),
      ZipEntry(<<"r", ".txt">>, RawBytes(<<"two">>)) }

Archives == UNION {[1..n -> EntryPool] : n \in 0..MaxEntries}

(***************************************************************************)
(* The session: calls of taint_jar and generate_tiny, one loop turn per    *)
(* step, and the mapper run between them.                                  *)
(***************************************************************************)
TaintCalls == {<<"input", "tainted">>, <<"tainted", "tainted2">>}

\* scripts/mcjar.py is not running: nothing cached, no call made
NoCall == [pc |-> "idle"]
NoSearch == [state |-> "none"]

McjarIdle ==
    /\ storage = EmptyDict
    /\ dcall = NoCall
    /\ returned = <<>>
    /\ downloads = 0
    /\ yarn = NoSearch

Init ==
    /\ REGISTRY = EmptyRegistry
    /\ uuidCalls = 0
    /\ \E X \in Archives : fs = [p \in {"input"} |-> X]
    /\ tinyFile = None
    /\ pc = "idle"
    /\ zin = <<>>
    /\ zout = <<>>
    /\ pos = 1
    /\ tiny_lines = <<>>
    /\ calls = 0
    /\ hist = [op |-> "none", src |-> "input", dst |-> "tainted",
               regStart |-> EmptyRegistry, kStart |-> 0,
               X |-> [p \in {} |-> <<>>], fresh |-> [p \in {} |-> FALSE],
               tool |-> "none", via |-> "none"]
    /\ McjarIdle

\* taint_jar(input_jar_path, output_jar_path) is called: both archives are opened
TaintBegin(src, dst) ==
    /\ pc = "idle"
    /\ calls < MaxCalls
    /\ src \in DOMAIN fs
    /\ pc' = "taint"
    /\ calls' = calls + 1
    /\ zin' = fs[src]
    /\ zout' = <<>>
    /\ pos' = 1
    /\ hist' = [hist EXCEPT !.src = src, !.dst = dst,
                            !.regStart = REGISTRY, !.kStart = uuidCalls]
    /\ UNCHANGED <<REGISTRY, uuidCalls, fs, tinyFile, tiny_lines>>
    /\ UNCHANGED mcvars

\* one turn of taint_jar's loop over zin.infolist()
TaintEntry ==
    /\ pc = "taint"
    /\ pos <= Len(zin)
    /\ LET r == taintItem(zin, zin[pos], REGISTRY, uuidCalls)
       IN  /\ zout' = Append(zout, r.out)
           /\ REGISTRY' = r.reg
           /\ uuidCalls' = r.k
    /\ pos' = pos + 1
    /\ UNCHANGED <<fs, tinyFile, pc, zin, tiny_lines, calls, hist>>
    /\ UNCHANGED mcvars

\* the loop is over: the archives are closed and taint_jar returns
TaintEnd ==
    /\ pc = "taint"
    /\ pos > Len(zin)
    /\ fs' = [p \in (DOMAIN fs) \cup {hist.dst} |-> IF p = hist.dst THEN zout ELSE fs[p]]
    /\ pc' = "idle"
    /\ hist' = [hist EXCEPT
                  !.op = "taint",
                  !.X = [p \in (DOMAIN @) \cup {hist.dst} |->
                            IF p = hist.dst THEN zin ELSE @[p]],
                  !.fresh = [p \in (DOMAIN @) \cup {hist.dst} |->
                            IF p = hist.dst THEN hist.regStart = EmptyRegistry ELSE @[p]]]
    /\ UNCHANGED <<REGISTRY, uuidCalls, tinyFile, zin, zout, pos, tiny_lines, calls>>
    /\ UNCHANGED mcvars

\* an external tool turns the tainted archive into the remapped one, while
\* the session has a call left to read it
Mapper(tool) ==
    /\ pc = "idle"
    /\ calls < MaxCalls
    /\ "tainted" \in DOMAIN fs
    /\ fs' = [p \in (DOMAIN fs) \cup {"remapped"} |->
                IF p = "remapped" THEN runTool(tool, fs["tainted"]) ELSE fs[p]]
    /\ hist' = [hist EXCEPT !.tool = tool]
    /\ UNCHANGED <<REGISTRY, uuidCalls, tinyFile, pc, zin, zout, pos, tiny_lines, calls>>
    /\ UNCHANGED mcvars

\* generate_tiny(remapped_jar_path, output_tiny_path) is called
ExtractBegin(src) ==
    /\ pc = "idle"
    /\ calls < MaxCalls
    /\ src \in DOMAIN fs
    /\ pc' = "extract"
    /\ calls' = calls + 1
    /\ zin' = fs[src]
    /\ pos' = 1
    /\ tiny_lines' = <<TINY_HEADER>>
    /\ hist' = [hist EXCEPT !.src = src, !.regStart = REGISTRY, !.kStart = uuidCalls,
                            !.via = IF src = "remapped" THEN hist.tool ELSE "none"]
    /\ UNCHANGED <<REGISTRY, uuidCalls, fs, tinyFile, zout>>
    /\ UNCHANGED mcvars

\* variant: a lookup of a class uid the registry misses inserts it, as a
\* defaultdict would
ExtractEntryInserting ==
    /\ pc = "extract"
    /\ pos <= Len(zin)
    /\ tiny_lines' = tiny_lines \o extractItem(zin, namelist(zin)[pos], REGISTRY)
    /\ pos' = pos + 1
    /\ LET bytes_in == zipRead(zin, namelist(zin)[pos])
           c_uid == findClassUid(bytes_in.cn)
       IN  REGISTRY' =
             IF endsWith(namelist(zin)[pos], DOT_CLASS) /\ bytes_in.cls /\ truthy(c_uid)
                /\ c_uid \notin DOMAIN REGISTRY.classes
             THEN [REGISTRY EXCEPT !.classes = dictSet(@, c_uid, [name |-> None])]
             ELSE REGISTRY
    /\ UNCHANGED <<uuidCalls, fs, tinyFile, pc, zin, zout, calls, hist>>
    /\ UNCHANGED mcvars

\* variant: the lines of an entry are put in front of those of the entries
\* before it
ExtractEntryPrepending ==
    /\ pc = "extract"
    /\ pos <= Len(zin)
    /\ tiny_lines' = <<Head(tiny_lines)>>
                       \o extractItem(zin, namelist(zin)[pos], REGISTRY)
                       \o Tail(tiny_lines)
    /\ pos' = pos + 1
    /\ UNCHANGED <<REGISTRY, uuidCalls, fs, tinyFile, pc, zin, zout, calls, hist>>
    /\ UNCHANGED mcvars

\* one turn of generate_tiny's loop over z.namelist()
ExtractEntry ==
    /\ pc = "extract"
    /\ pos <= Len(zin)
    /\ tiny_lines' = tiny_lines \o extractItem(zin, namelist(zin)[pos], REGISTRY)
    /\ pos' = pos + 1
    /\ UNCHANGED <<REGISTRY, uuidCalls, fs, tinyFile, pc, zin, zout, calls, hist>>
    /\ UNCHANGED mcvars

\* the loop is over: the lines are joined and written, generate_tiny returns
ExtractEnd ==
    /\ pc = "extract"
    /\ pos > Len(zin)
    /\ tinyFile' = join(<<"\n">>, tiny_lines)
    /\ pc' = "idle"
    /\ hist' = [hist EXCEPT !.op = "extract"]
    /\ UNCHANGED <<REGISTRY, uuidCalls, fs, zin, zout, pos, tiny_lines, calls>>
    /\ UNCHANGED mcvars

Next ==
    \/ \E c \in TaintCalls : TaintBegin(c[1], c[2])
    \/ TaintEntry
    \/ TaintEnd
    \/ \E tool \in Tools : Mapper(tool)
    \/ \E src \in {"input", "tainted", "tainted2", "remapped"} : ExtractBegin(src)
    \/ ExtractEntry
    \/ ExtractEnd

Spec == Init /\ [][Next]_vars

(***************************************************************************)
(* Reading the mapping table back: lines and columns.                      *)
(***************************************************************************)
\* s.split(c) for a one-symbol c
RECURSIVE splitSym(_, _)
splitSym(s, c) ==
    LET at == find(s, <<c>>)
    IN  IF at = 0 THEN <<s>>
        ELSE <<SubSeq(s, 1, at - 1)>> \o splitSym(SubSeq(s, at + 1, Len(s)), c)

\* a line given by its columns
Line(cols) == join(TAB, cols)

\* the lines of a written table, each as its sequence of columns
TableRows(file) ==
    LET ls == splitSym(file, "\n")
    IN  [k \in 1..Len(ls) |-> splitSym(ls[k], "\t")]

RowsOfKind(file, kind) == SelectSeq(TableRows(file), LAMBDA r : r[1] = <<kind>>)

\* generate_tiny has returned, having read the archive at path p
Extracted(p) == pc = "idle" /\ hist.op = "extract" /\ hist.src = p

\* taint_jar has returned and nothing was called since
Tainted == pc = "idle" /\ hist.op = "taint"

\* the archive at "tainted" is taint_jar's output for input X, and the
\* registry was empty when that pass began
FreshlyTaintedFrom(X) ==
    /\ "tainted" \in DOMAIN fs
    /\ hist.X["tainted"] = X
    /\ hist.fresh["tainted"]

OnlyClassA == <<ZipEntry(<<"a", ".class">>, toByteArray(ClassA))>>

(***************************************************************************)
(* C1.  The archive holds the single class a (static field x : I, instance *)
(* field y : Ljava/lang/String;, method go : ()V).  taint_jar on an empty  *)
(* registry followed by generate_tiny on its output writes exactly the     *)
(* five lines v1/official/named, CLASS a a, FIELD a I x x,                 *)
(* FIELD a Ljava/lang/String; y y, METHOD a ()V go go, in this order.      *)
(***************************************************************************)
C1_Expected ==
    join(<<"\n">>,
         << Line(<< <<"v1">>, <<"official">>, <<"named">> >>),
            Line(<< <<"CLASS">>, <<"a">>, <<"a">> >>),
            Line(<< <<"FIELD">>, <<"a">>, <<"I">>, <<"x">>, <<"x">> >>),
            Line(<< <<"FIELD">>, <<"a">>, <<"Ljava/lang/String;">>, <<"y">>, <<"y">> >>),
            Line(<< <<"METHOD">>, <<"a">>, <<"()V">>, <<"go">>, <<"go">> >>) >>)

C1_SingleClassTable ==
    (Extracted("tainted") /\ FreshlyTaintedFrom(OnlyClassA)) => tinyFile = C1_Expected

C1_Witness ==
    Extracted("tainted") /\ FreshlyTaintedFrom(OnlyClassA) /\ tinyFile = C1_Expected

(***************************************************************************)
(* C3.  When the mapper renames class a to b, field x to x2 and method go  *)
(* to run between taint_jar and generate_tiny, the table holds the rows    *)
(* CLASS a b, FIELD a I x x2 and METHOD a ()V go run: original columns     *)
(* from the registry, current columns from the renamed archive.            *)
(***************************************************************************)
C3_Rows ==
    { << <<"CLASS">>, <<"a">>, <<"b">> >>,
      << <<"FIELD">>, <<"a">>, <<"I">>, <<"x">>, <<"x2">> >>,
      << <<"METHOD">>, <<"a">>, <<"()V">>, <<"go">>, <<"run">> >> }

C3_Renamed ==
    /\ Extracted("remapped")
    /\ hist.via = "mapper"
    /\ hist.X["tainted"] = OnlyClassA

C3_RenamingRows ==
    C3_Renamed =>
        \A row \in C3_Rows : \E k \in 1..Len(TableRows(tinyFile)) : TableRows(tinyFile)[k] = row

C3_Witness ==
    /\ C3_Renamed
    /\ TableRows(tinyFile)[2] = << <<"CLASS">>, <<"a">>, <<"b">> >>
    /\ Len(TableRows(tinyFile)) = 5

(***************************************************************************)
(* What the claims count in an input archive X: its parseable classes, and *)
(* their fields and methods that tainting is to mark.                      *)
(***************************************************************************)
RECURSIVE SumSeq(_)
SumSeq(ns) == IF ns = <<>> THEN 0 ELSE Head(ns) + SumSeq(Tail(ns))

CountedField(f) == f.name # <<"__MCP_UUID__">>

CountedMethod(m) ==
    /\ "ACC_ABSTRACT" \notin m.access
    /\ "ACC_NATIVE" \notin m.access
    /\ m.name[1] # "<"
    /\ m.name[1] # "$$mcp"

\* the class trees taint_jar parses out of X, in entry order
ParsedClasses(X) ==
    LET at == SelectSeq([k \in 1..Len(X) |-> k],
                        LAMBDA k : /\ X[k].filename[Len(X[k].filename)] = ".class"
                                   /\ zipRead(X, X[k].filename).cls)
    IN  [k \in 1..Len(at) |-> zipRead(X, X[at[k]].filename).cn]

CountK(X) == Len(ParsedClasses(X))

CountM(X) ==
    SumSeq([k \in 1..Len(ParsedClasses(X)) |->
              Len(SelectSeq(ParsedClasses(X)[k].fields, CountedField))])

CountN(X) ==
    SumSeq([k \in 1..Len(ParsedClasses(X)) |->
              Len(SelectSeq(ParsedClasses(X)[k].methods, CountedMethod))])

\* no class of X declares a field under the reserved marker name (such a
\* collision is left undefined by the specification)
NoReservedField(X) ==
    \A k \in 1..Len(ParsedClasses(X)) :
        \A q \in 1..Len(ParsedClasses(X)[k].fields) :
            ParsedClasses(X)[k].fields[q].name # <<"__MCP_UUID__">>

RegistrySize(reg) ==
    Cardinality(DOMAIN reg.classes) + Cardinality(DOMAIN reg.fields)
        + Cardinality(DOMAIN reg.methods)

\* the original-name and current-name columns of a row
OriginalColumn(row) == IF row[1] = <<"CLASS">> THEN row[2] ELSE row[4]
CurrentColumn(row) == row[Len(row)]

(***************************************************************************)
(* C2.  For every input X tainted on an empty registry, generate_tiny on   *)
(* the unmodified output of taint_jar(X) emits exactly K CLASS rows,       *)
(* M FIELD rows and N METHOD rows (K parseable classes, M fields other     *)
(* than the marker, N methods that tainting marks), and in each of them    *)
(* the original-name column equals the current-name column.  Stated here  *)
(* for the inputs that declare no field under the reserved marker name.    *)
(***************************************************************************)
C2_RoundTripCounts ==
    (Extracted("tainted") /\ hist.fresh["tainted"] /\ NoReservedField(hist.X["tainted"])) =>
        LET X == hist.X["tainted"]
            rows == Tail(TableRows(tinyFile))
        IN  /\ Len(RowsOfKind(tinyFile, "CLASS")) = CountK(X)
            /\ Len(RowsOfKind(tinyFile, "FIELD")) = CountM(X)
            /\ Len(RowsOfKind(tinyFile, "METHOD")) = CountN(X)
            /\ \A k \in 1..Len(rows) : OriginalColumn(rows[k]) = CurrentColumn(rows[k])

(***************************************************************************)
(* C4.  One taint_jar pass on an input with K parsed classes, M fields     *)
(* other than the marker and N marked methods mints exactly K+M+N uids,    *)
(* and when the pass ends the registry holds exactly K+M+N entries.        *)
(***************************************************************************)
C4_UidCount ==
    Tainted =>
        LET X == hist.X[hist.dst]
            n == CountK(X) + CountM(X) + CountN(X)
        IN  /\ uuidCalls - hist.kStart = n
            /\ RegistrySize(REGISTRY) = n

(***************************************************************************)
(* C5.  Every entry of the input whose name does not end in .class is in   *)
(* the output of taint_jar with the same name and the same bytes, and      *)
(* these entries keep their relative order.                                *)
(***************************************************************************)
NotClassName(e) == e.filename[Len(e.filename)] # ".class"

C5_NonCodeEntriesCopied ==
    Tainted => SelectSeq(fs[hist.dst], NotClassName) = SelectSeq(hist.X[hist.dst], NotClassName)

(***************************************************************************)
(* C6.  The registry is empty at the start of every tainting pass, also    *)
(* when an earlier tainting pass ran in the same process.                  *)
(***************************************************************************)
C6_EmptyAtPassStart == pc = "taint" => hist.regStart = EmptyRegistry

(***************************************************************************)
(* C7.  No step of a session overwrites, changes or deletes an entry of    *)
(* the registry, and every uid minted is written once: each uuid4() call   *)
(* of a step adds one new entry.                                           *)
(***************************************************************************)
Keeps(d, e) == \A uid \in DOMAIN d : uid \in DOMAIN e /\ e[uid] = d[uid]

C7_EntriesImmutable ==
    [][ /\ Keeps(REGISTRY.classes, REGISTRY'.classes)
        /\ Keeps(REGISTRY.fields, REGISTRY'.fields)
        /\ Keeps(REGISTRY.methods, REGISTRY'.methods)
        /\ RegistrySize(REGISTRY') - RegistrySize(REGISTRY) = uuidCalls' - uuidCalls ]_vars

\* a second tainting pass has added entries to a registry that held some
C7_Witness ==
    /\ Tainted
    /\ hist.regStart # EmptyRegistry
    /\ RegistrySize(REGISTRY) > RegistrySize(hist.regStart)
    /\ Keeps(hist.regStart.methods, REGISTRY.methods)

(***************************************************************************)
(* C8.  generate_tiny leaves the three maps of the registry as they were,  *)
(* whatever the archive holds.                                             *)
(***************************************************************************)
C8_ExtractionReadsOnly ==
    [][(pc = "extract" \/ pc' = "extract") => REGISTRY' = REGISTRY]_vars

\* an extraction over a registry with entries has gone through two entries,
\* one that gave lines and one that gave none
C8_Witness ==
    /\ Extracted("tainted")
    /\ REGISTRY = hist.regStart
    /\ REGISTRY # EmptyRegistry
    /\ Len(zin) = 2
    /\ Len(RowsOfKind(tinyFile, "CLASS")) = 1

(***************************************************************************)
(* C9.  When ClassReader rejects a .class entry during taint_jar, the      *)
(* entry's own bytes go to the output under the same name, no uid is       *)
(* minted, the registry gets no entry, and the loop goes on to the next    *)
(* entry.                                                                  *)
(***************************************************************************)
ParseFails ==
    /\ pc = "taint"
    /\ pos <= Len(zin)
    /\ zin[pos].filename[Len(zin[pos].filename)] = ".class"
    /\ ~zipRead(zin, zin[pos].filename).cls

C9_ParseFailurePassesThrough ==
    [][ParseFails => /\ zout' = Append(zout, zin[pos])
                     /\ REGISTRY' = REGISTRY
                     /\ uuidCalls' = uuidCalls
                     /\ pc' = "taint"
                     /\ pos' = pos + 1]_vars

(***************************************************************************)
(* C10.  In generate_tiny a class without a marker field, or whose marker  *)
(* value is not a key of the classes registry, adds no line at all, even   *)
(* when it holds probe methods or constants that are registered uids; the  *)
(* loop goes on to the next entry.                                         *)
(***************************************************************************)
MarkerFields(cn) == SelectSeq(cn.fields, LAMBDA f : f.name = <<"__MCP_UUID__">>)

Unmarked(cn, reg) ==
    \/ MarkerFields(cn) = <<>>
    \/ MarkerFields(cn)[1].value \notin DOMAIN reg.classes

\* the class generate_tiny is about to analyse
ExtractingClass ==
    /\ pc = "extract"
    /\ pos <= Len(zin)
    /\ zin[pos].filename[Len(zin[pos].filename)] = ".class"
    /\ zipRead(zin, zin[pos].filename).cls

C10_UnmarkedClassGivesNoRow ==
    [][(ExtractingClass /\ Unmarked(zipRead(zin, zin[pos].filename).cn, REGISTRY))
          => (tiny_lines' = tiny_lines /\ pos' = pos + 1 /\ pc' = "extract")]_vars

\* has a method that holds a constant the methods registry knows
HoldsMethodUid(cn, reg) ==
    \E q \in 1..Len(cn.methods) : \E n \in 1..Len(cn.methods[q].instructions) :
        /\ cn.methods[q].instructions[n].kind = "LdcInsnNode"
        /\ cn.methods[q].instructions[n].cst \in DOMAIN reg.methods

\* a class without marker that holds registered uids is about to be analysed
C10_Witness ==
    /\ ExtractingClass
    /\ MarkerFields(zipRead(zin, zin[pos].filename).cn) = <<>>
    /\ HoldsMethodUid(zipRead(zin, zin[pos].filename).cn, REGISTRY)

(***************************************************************************)
(* C11.  Whatever archive generate_tiny has read, also one without class   *)
(* entries or without a marked class, the first line of the table is       *)
(* v1<TAB>official<TAB>named and every later line is CLASS followed by     *)
(* exactly two tab-separated columns, or FIELD or METHOD followed by       *)
(* exactly four.                                                           *)
(***************************************************************************)
WellShaped(row) ==
    \/ row[1] = <<"CLASS">> /\ Len(row) = 3
    \/ row[1] \in {<<"FIELD">>, <<"METHOD">>} /\ Len(row) = 5

TableShape(file) ==
    /\ TableRows(file)[1] = << <<"v1">>, <<"official">>, <<"named">> >>
    /\ \A k \in 2..Len(TableRows(file)) : WellShaped(TableRows(file)[k])

C11_TableShape == (pc = "idle" /\ hist.op = "extract") => TableShape(tinyFile)

\* C11 as the code has it: the same, for a registry and an archive whose
\* class names, member names and descriptors hold no tab and no line break
Plain(s) == \A i \in 1..Len(s) : s[i] \notin {"\t", "\n"}

PlainMembers(ms) == \A q \in 1..Len(ms) : Plain(ms[q].name) /\ Plain(ms[q].desc)

PlainArchive(z) ==
    \A k \in 1..Len(z) :
        z[k].data.cls => /\ Plain(z[k].data.cn.name)
                         /\ PlainMembers(z[k].data.cn.fields)
                         /\ PlainMembers(z[k].data.cn.methods)

PlainRegistry(reg) ==
    /\ \A u \in DOMAIN reg.classes : Plain(reg.classes[u].name)
    /\ \A u \in DOMAIN reg.fields : Plain(reg.fields[u].name) /\ Plain(reg.fields[u].desc)
    /\ \A u \in DOMAIN reg.methods : Plain(reg.methods[u].name) /\ Plain(reg.methods[u].desc)

C11_TableShapePlainNames ==
    (pc = "idle" /\ hist.op = "extract" /\ PlainRegistry(REGISTRY) /\ PlainArchive(zin))
        => TableShape(tinyFile)

\* a table with rows of the three kinds has been written from plain names
C11_Witness ==
    /\ pc = "idle" /\ hist.op = "extract"
    /\ PlainRegistry(REGISTRY) /\ PlainArchive(zin)
    /\ RowsOfKind(tinyFile, "CLASS") # <<>>
    /\ RowsOfKind(tinyFile, "FIELD") # <<>>
    /\ RowsOfKind(tinyFile, "METHOD") # <<>>
    /\ TableShape(tinyFile)

(***************************************************************************)
(* C12.  Rows are in encounter order and never re-sorted: a turn of        *)
(* generate_tiny's loop only appends, so the rows of an earlier entry      *)
(* precede those of a later one, and the rows one class adds follow the    *)
(* declaration order of the methods they were found in: a row found in a   *)
(* method declared earlier precedes a row found in a method declared       *)
(* later.                                                                  *)
(***************************************************************************)
RECURSIVE Flatten(_)
Flatten(ss) == IF ss = <<>> THEN <<>> ELSE Head(ss) \o Flatten(Tail(ss))

AddedLines == SubSeq(tiny_lines', Len(tiny_lines) + 1, Len(tiny_lines'))

OnlyAppends ==
    /\ Len(tiny_lines') >= Len(tiny_lines)
    /\ SubSeq(tiny_lines', 1, Len(tiny_lines)) = tiny_lines

\* the original name the class's marker stands for
MarkedName(cn, reg) == reg.classes[MarkerFields(cn)[1].value].name

\* the FIELD row found in method m of a class, if any
ProbeRow(m, reg, orig) ==
    LET at == {n \in 1..Len(m.instructions) : m.instructions[n].kind = "FieldInsnNode"}
        first == CHOOSE n \in at : \A h \in at : n <= h
    IN  IF contains(m.name, MCP_TRACE) /\ at # {}
           /\ splitAt1(m.name, MCP_TRACE) \in DOMAIN reg.fields
        THEN << Line(<< <<"FIELD">>, orig, reg.fields[splitAt1(m.name, MCP_TRACE)].desc,
                        reg.fields[splitAt1(m.name, MCP_TRACE)].name,
                        m.instructions[first].name >>) >>
        ELSE <<>>

\* the METHOD row found in method m of a class, if any
UidRow(m, reg, orig) ==
    LET at == {n \in 1..Len(m.instructions) : m.instructions[n].kind = "LdcInsnNode"}
        first == CHOOSE n \in at : \A h \in at : n <= h
    IN  IF at # {} /\ m.instructions[first].cst \in DOMAIN reg.methods
        THEN << Line(<< <<"METHOD">>, orig, reg.methods[m.instructions[first].cst].desc,
                        reg.methods[m.instructions[first].cst].name, m.name >>) >>
        ELSE <<>>

ClassRow(cn, orig) == << Line(<< <<"CLASS">>, orig, cn.name >>) >>

\* the rows of a class, each method's rows at the method's place
RowsByDeclaration(cn, reg) ==
    IF Unmarked(cn, reg) THEN <<>>
    ELSE ClassRow(cn, MarkedName(cn, reg))
         \o Flatten([q \in 1..Len(cn.methods) |->
                        ProbeRow(cn.methods[q], reg, MarkedName(cn, reg))
                        \o UidRow(cn.methods[q], reg, MarkedName(cn, reg))])

\* the rows of a class, the FIELD rows before the METHOD rows
RowsFieldsFirst(cn, reg) ==
    IF Unmarked(cn, reg) THEN <<>>
    ELSE ClassRow(cn, MarkedName(cn, reg))
         \o Flatten([q \in 1..Len(cn.methods) |->
                        ProbeRow(cn.methods[q], reg, MarkedName(cn, reg))])
         \o Flatten([q \in 1..Len(cn.methods) |->
                        UidRow(cn.methods[q], reg, MarkedName(cn, reg))])

C12_DeclarationOrder ==
    [][(pc = "extract" /\ pos <= Len(zin)) =>
          /\ OnlyAppends
          /\ ExtractingClass =>
                \/ AddedLines = <<>>
                \/ AddedLines = RowsByDeclaration(zipRead(zin, zin[pos].filename).cn, REGISTRY)
      ]_vars

\* C12 as the code has it: the rows of an earlier entry precede those of a
\* later one; within one class the CLASS row is first, then the FIELD rows
\* in the declaration order of their probe methods, then the METHOD rows in
\* the declaration order of their methods
C12_FieldsThenMethods ==
    [][(pc = "extract" /\ pos <= Len(zin)) =>
          /\ OnlyAppends
          /\ ExtractingClass =>
                \/ AddedLines = <<>>
                \/ AddedLines = RowsFieldsFirst(zipRead(zin, zin[pos].filename).cn, REGISTRY)
      ]_vars

\* a table whose second class entry gave rows after those of the first,
\* each with the CLASS row first and a FIELD row before a METHOD row
C12_Witness ==
    /\ pc = "idle" /\ hist.op = "extract"
    /\ Len(zin) = 2
    /\ Len(RowsOfKind(tinyFile, "CLASS")) = 2
    /\ TableRows(tinyFile)[2][1] = <<"CLASS">>
    /\ TableRows(tinyFile)[3][1] = <<"FIELD">>
    /\ TableRows(tinyFile)[Len(TableRows(tinyFile))][1] = <<"METHOD">>
    /\ TableRows(tinyFile)[2][2] # TableRows(tinyFile)[Len(TableRows(tinyFile))][2]

(***************************************************************************)
(* C13.  Class s declares one abstract method abs and one native method    *)
(* nat.  Tainted and then extracted, it gives one CLASS row for each time  *)
(* it was read and no METHOD row for abs or nat, and the methods registry  *)
(* holds no uid for either of them.                                        *)
(***************************************************************************)
TimesParsed(X, cn) ==
    Len(SelectSeq(ParsedClasses(X), LAMBDA c : c = cn))

ClassSExtracted ==
    /\ Extracted("tainted")
    /\ TimesParsed(hist.X["tainted"], ClassS) > 0

C13_AbstractAndNativeGiveNoRow ==
    ClassSExtracted =>
        /\ Len(SelectSeq(RowsOfKind(tinyFile, "CLASS"), LAMBDA r : r[2] = <<"s">>))
              = TimesParsed(hist.X["tainted"], ClassS)
        /\ \A k \in 1..Len(RowsOfKind(tinyFile, "METHOD")) :
              LET r == RowsOfKind(tinyFile, "METHOD")[k]
              IN  ~(r[2] = <<"s">> /\ (r[4] \in {<<"abs">>, <<"nat">>}
                                        \/ r[Len(r)] \in {<<"abs">>, <<"nat">>}))
        /\ \A u \in DOMAIN REGISTRY.methods :
              ~(REGISTRY.methods[u].owner = <<"s">>
                /\ REGISTRY.methods[u].name \in {<<"abs">>, <<"nat">>})

\* class s alone was tainted and extracted: one CLASS row, and a METHOD row
\* for its method run only
C13_Witness ==
    /\ ClassSExtracted
    /\ Len(hist.X["tainted"]) = 1
    /\ TableRows(tinyFile)[2] = << <<"CLASS">>, <<"s">>, <<"s">> >>
    /\ RowsOfKind(tinyFile, "METHOD") = << << <<"METHOD">>, <<"s">>, <<"()V">>, <<"run">>, <<"run">> >> >>

(***************************************************************************)
(* C14.  After taint_jar the body of every rewritten method consists of    *)
(* exactly four operations, in this order: construct the error carrier,    *)
(* push the uid constant, invoke the carrier's single-string constructor,  *)
(* raise; its exception-handler table and its local-variable table are     *)
(* empty.                                                                  *)
(***************************************************************************)
Opcodes(m) ==
    [n \in 1..Len(m.instructions) |->
        IF m.instructions[n].kind = "LdcInsnNode" THEN "LDC"
        ELSE m.instructions[n].opcode]

\* the methods of the classes taint_jar has just written
RewrittenMethods ==
    UNION { { fs[hist.dst][k].data.cn.methods[q] :
                q \in { q \in 1..Len(fs[hist.dst][k].data.cn.methods) :
                          CountedMethod(fs[hist.dst][k].data.cn.methods[q]) } } :
            k \in { k \in 1..Len(fs[hist.dst]) : fs[hist.dst][k].data.cls } }

CallsErrorConstructor(insn) ==
    /\ insn.kind = "MethodInsnNode"
    /\ insn.owner = <<"java/lang/Error">>
    /\ insn.name = <<"<", "init>">>
    /\ insn.desc = <<"(Ljava/lang/String;)V">>

C14_FourOperations ==
    Tainted =>
        \A m \in RewrittenMethods :
            /\ Opcodes(m) = <<"NEW", "LDC", "INVOKESPECIAL", "ATHROW">>
            /\ m.tryCatchBlocks = <<>>
            /\ m.localVariables = <<>>

\* C14 as the code has it: five instructions, the new carrier being
\* duplicated on the stack before the constant is pushed
C14_FiveInstructions ==
    Tainted =>
        \A m \in RewrittenMethods :
            /\ Opcodes(m) = <<"NEW", "DUP", "LDC", "INVOKESPECIAL", "ATHROW">>
            /\ m.instructions[1].desc = <<"java/lang/Error">>
            /\ m.instructions[3].cst \in DOMAIN REGISTRY.methods
            /\ CallsErrorConstructor(m.instructions[4])
            /\ m.tryCatchBlocks = <<>>
            /\ m.localVariables = <<>>

\* taint_jar has rewritten a method that had a handler and a local variable
C14_Witness ==
    /\ Tainted
    /\ \E k \in 1..Len(hist.X[hist.dst]) :
          /\ hist.X[hist.dst][k].data.cls
          /\ fs[hist.dst][k].data.cls
          /\ \E q \in 1..Len(hist.X[hist.dst][k].data.cn.methods) :
                /\ hist.X[hist.dst][k].data.cn.methods[q].tryCatchBlocks # <<>>
                /\ hist.X[hist.dst][k].data.cn.methods[q].localVariables # <<>>
                /\ fs[hist.dst][k].data.cn.methods[q] \in RewrittenMethods
                /\ Len(fs[hist.dst][k].data.cn.methods[q].instructions) = 5

(***************************************************************************)
(* C15.  In generate_tiny every method of a marked class whose             *)
(* instructions hold at least one constant-load whose value is a uid of    *)
(* the methods registry gives exactly one METHOD row, built from the first *)
(* such constant-load, also when constant-loads of other values come       *)
(* before it; a method without such a constant gives no METHOD row.        *)
(***************************************************************************)
\* the METHOD row of method m by its first constant that is a registered uid
FirstUidRow(m, reg, orig) ==
    LET at == {n \in 1..Len(m.instructions) :
                  /\ m.instructions[n].kind = "LdcInsnNode"
                  /\ m.instructions[n].cst \in DOMAIN reg.methods}
        first == CHOOSE n \in at : \A h \in at : n <= h
    IN  IF at # {}
        THEN << Line(<< <<"METHOD">>, orig, reg.methods[m.instructions[first].cst].desc,
                        reg.methods[m.instructions[first].cst].name, m.name >>) >>
        ELSE <<>>

\* generate_tiny is about to analyse a class and gives it its CLASS row
ExtractingMarkedClass ==
    /\ ExtractingClass
    /\ ~Unmarked(zipRead(zin, zin[pos].filename).cn, REGISTRY)
    /\ AddedLines # <<>>

C15_FirstRegisteredConstant ==
    [][ExtractingMarkedClass =>
          LET cn == zipRead(zin, zin[pos].filename).cn
          IN  SelectSeq(AddedLines, LAMBDA l : l[1] = "METHOD")
                = Flatten([q \in 1..Len(cn.methods) |->
                              FirstUidRow(cn.methods[q], REGISTRY, MarkedName(cn, REGISTRY))])
      ]_vars

(***************************************************************************)
(* C16.  The owner column of every FIELD row is the owner name stored in   *)
(* the registry record of that row's field uid, also when the probe method *)
(* carrying the uid is found in a class whose own marker stands for        *)
(* another original class name.                                            *)
(***************************************************************************)
\* the FIELD row found in method m, its owner column from the field's record
ProbeRowOfRecord(m, reg) ==
    IF contains(m.name, MCP_TRACE) /\ splitAt1(m.name, MCP_TRACE) \in DOMAIN reg.fields
    THEN ProbeRow(m, reg, reg.fields[splitAt1(m.name, MCP_TRACE)].owner)
    ELSE <<>>

C16_FieldOwnerFromRecord ==
    [][ExtractingMarkedClass =>
          LET cn == zipRead(zin, zin[pos].filename).cn
          IN  SelectSeq(AddedLines, LAMBDA l : l[1] = "FIELD")
                = Flatten([q \in 1..Len(cn.methods) |-> ProbeRowOfRecord(cn.methods[q], REGISTRY)])
      ]_vars

(***************************************************************************)
(* C17.  In taint_jar every declared method that is not abstract, not      *)
(* native, not a constructor or initializer and whose name does not begin  *)
(* with the reserved field-probe prefix $$mcp_trace_ receives exactly one  *)
(* method uid, recorded with the class name, the method name and the       *)
(* descriptor, and has its body replaced.                                  *)
(***************************************************************************)
\* the class taint_jar is about to transform
TaintingClass ==
    /\ pc = "taint"
    /\ pos <= Len(zin)
    /\ zin[pos].filename[Len(zin[pos].filename)] = ".class"
    /\ zipRead(zin, zin[pos].filename).cls

\* the class it is read as, and the class it is written as
ClassRead == zipRead(zin, zin[pos].filename).cn
ClassWritten == zout'[Len(zout')].data.cn

\* the method uids the step has minted
MintedMethodUids == (DOMAIN REGISTRY'.methods) \ (DOMAIN REGISTRY.methods)

\* method m is to be tainted, by the prefix the probe methods are named with
ToTaint(m) ==
    /\ "ACC_ABSTRACT" \notin m.access
    /\ "ACC_NATIVE" \notin m.access
    /\ m.name[1] # "<"
    /\ ~(Len(m.name) >= 2 /\ SubSeq(m.name, 1, 2) = <<"$$mcp", "_trace_">>)

\* the method at place q got uid u: its record and its new body
TaintedWith(q, u) ==
    /\ REGISTRY'.methods[u] = [owner |-> ClassRead.name,
                               name |-> ClassRead.methods[q].name,
                               desc |-> ClassRead.methods[q].desc]
    /\ Opcodes(ClassWritten.methods[q]) = <<"NEW", "DUP", "LDC", "INVOKESPECIAL", "ATHROW">>
    /\ ClassWritten.methods[q].instructions[3].cst = u

C17_EveryOtherMethodTainted ==
    [][TaintingClass =>
          \A q \in 1..Len(ClassRead.methods) :
              ToTaint(ClassRead.methods[q]) =>
                  Cardinality({u \in MintedMethodUids : TaintedWith(q, u)}) = 1
      ]_vars

(***************************************************************************)
(* C18.  Within one tainting pass the abstract methods, the native         *)
(* methods, the constructors and initializers, the marker field and the    *)
(* probe methods the pass adds are left alone: no field uid and no probe   *)
(* is made for the marker field, and none of these methods gets a method   *)
(* uid or has its instructions, handler table or local-variable table      *)
(* changed.                                                                *)
(***************************************************************************)
LeftAlone(m) ==
    \/ "ACC_ABSTRACT" \in m.access
    \/ "ACC_NATIVE" \in m.access
    \/ m.name[1] = "<"

MintedFieldUids == (DOMAIN REGISTRY'.fields) \ (DOMAIN REGISTRY.fields)

\* the places of the methods the step has added to the class
AddedMethods == (Len(ClassRead.methods) + 1)..Len(ClassWritten.methods)

\* a probe method as the field loop builds it
IsProbe(m) ==
    /\ Len(m.name) >= 2 /\ SubSeq(m.name, 1, 2) = <<"$$mcp", "_trace_">>
    /\ Opcodes(m) \in { <<"GETSTATIC", "POP", "RETURN">>,
                        <<"ACONST_NULL", "GETFIELD", "POP", "RETURN">> }
    /\ m.tryCatchBlocks = <<>>
    /\ m.localVariables = <<>>

C18_SkippedMembersUntouched ==
    [][TaintingClass =>
          /\ \A q \in 1..Len(ClassRead.methods) :
                LeftAlone(ClassRead.methods[q]) =>
                    /\ ClassWritten.methods[q] = ClassRead.methods[q]
                    /\ \A u \in MintedMethodUids :
                          REGISTRY'.methods[u].name # ClassRead.methods[q].name
          /\ \A q \in AddedMethods :
                /\ IsProbe(ClassWritten.methods[q])
                /\ \A u \in MintedMethodUids :
                      REGISTRY'.methods[u].name # ClassWritten.methods[q].name
          /\ \A u \in MintedFieldUids : REGISTRY'.fields[u].name # <<"__MCP_UUID__">>
          /\ Cardinality(AddedMethods) = Len(SelectSeq(ClassRead.fields, CountedField))
          /\ Cardinality(MintedFieldUids) = Cardinality(AddedMethods)
      ]_vars

\* a pass has gone over a class with an abstract method, a native method and
\* a constructor, and over a class it gave probe methods and a marker field
C18_Witness ==
    /\ Tainted
    /\ \E k \in 1..Len(fs[hist.dst]) :
          /\ fs[hist.dst][k].data.cls
          /\ \E q \in 1..Len(fs[hist.dst][k].data.cn.methods) :
                "ACC_ABSTRACT" \in fs[hist.dst][k].data.cn.methods[q].access
          /\ \E q \in 1..Len(fs[hist.dst][k].data.cn.methods) :
                "ACC_NATIVE" \in fs[hist.dst][k].data.cn.methods[q].access
          /\ \E q \in 1..Len(fs[hist.dst][k].data.cn.methods) :
                /\ fs[hist.dst][k].data.cn.methods[q].name = <<"<", "init>">>
                /\ fs[hist.dst][k].data.cn.methods[q].tryCatchBlocks # <<>>
    /\ \E k \in 1..Len(fs[hist.dst]) :
          /\ fs[hist.dst][k].data.cls
          /\ MarkerFields(fs[hist.dst][k].data.cn) # <<>>
          /\ \E q \in 1..Len(fs[hist.dst][k].data.cn.methods) :
                IsProbe(fs[hist.dst][k].data.cn.methods[q])

(***************************************************************************)
(* C19.  taint_jar on an archive that an earlier tainting pass wrote       *)
(* leaves the members tainted before as they are: a class that carries the *)
(* marker field gets no second one, and a method whose body was replaced   *)
(* before keeps its uid constant and gets no new registry entry.           *)
(***************************************************************************)
\* method m has the body of a tainted method, with a uid the registry knows
AlreadyTainted(m, reg) ==
    /\ Opcodes(m) = <<"NEW", "DUP", "LDC", "INVOKESPECIAL", "ATHROW">>
    /\ m.instructions[3].cst \in DOMAIN reg.methods

C19_SecondPassChangesNothing ==
    [][(TaintingClass /\ hist.src = "tainted") =>
          /\ MarkerFields(ClassRead) # <<>> => Len(MarkerFields(ClassWritten)) = 1
          /\ \A q \in 1..Len(ClassRead.methods) :
                AlreadyTainted(ClassRead.methods[q], REGISTRY) =>
                    /\ ClassWritten.methods[q] = ClassRead.methods[q]
                    /\ \A u \in MintedMethodUids :
                          REGISTRY'.methods[u].name # ClassRead.methods[q].name
      ]_vars

(***************************************************************************)
(* C20.  After taint_jar every tainted method holds exactly one            *)
(* constant-load instruction; its value is the method's own uid, which the *)
(* methods registry maps to the class name, the method name and the        *)
(* descriptor the method had when it was tainted; no two tainted methods   *)
(* of the archive carry the same uid.                                      *)
(***************************************************************************)
\* the places <<entry, method>> of the tainted methods of archive z
TaintedPlaces(z) ==
    UNION { { <<k, q>> : q \in { q \in 1..Len(z[k].data.cn.methods) :
                                    CountedMethod(z[k].data.cn.methods[q]) } } :
            k \in { k \in 1..Len(z) : z[k].data.cls } }

Constants(m) == SelectSeq(m.instructions, LAMBDA i : i.kind = "LdcInsnNode")

C20_OneOwnUidPerMethod ==
    Tainted =>
        LET z == fs[hist.dst]
        IN  /\ \A p \in TaintedPlaces(z) :
                  LET cn == z[p[1]].data.cn
                      m == cn.methods[p[2]]
                  IN  /\ Len(Constants(m)) = 1
                      /\ Constants(m)[1].cst \in DOMAIN REGISTRY.methods
                      /\ REGISTRY.methods[Constants(m)[1].cst]
                            = [owner |-> cn.name, name |-> m.name, desc |-> m.desc]
            /\ \A p, r \in TaintedPlaces(z) :
                  p # r => Constants(z[p[1]].data.cn.methods[p[2]])
                              # Constants(z[r[1]].data.cn.methods[r[2]])

\* an archive with two tainted methods has been written
C20_Witness ==
    /\ Tainted
    /\ Cardinality(TaintedPlaces(fs[hist.dst])) >= 2
    /\ \A p \in TaintedPlaces(fs[hist.dst]) :
          Len(Constants(fs[hist.dst][p[1]].data.cn.methods[p[2]])) = 1

(***************************************************************************)
(* C21.  For every field other than the marker, taint_jar adds exactly one *)
(* public static method ()V named $$mcp_trace_ followed by the field uid   *)
(* without hyphens; its body holds exactly one field-access instruction, a *)
(* read of that field by its current owner, name and descriptor, preceded  *)
(* by a null push if and only if the field is not static, and followed by  *)
(* a pop and a return.                                                     *)
(***************************************************************************)
\* the fields of the class read that are to get a probe, in declaration order
FieldsToProbe == SelectSeq(ClassRead.fields, CountedField)

\* the text after the probe prefix in the name of method m
UidOfProbe(m) == SubSeq(m.name, 3, Len(m.name))

\* method m is the probe of field f of the class named owner
ProbeOf(m, f, owner) ==
    /\ m.access = {"ACC_PUBLIC", "ACC_STATIC"}
    /\ m.desc = <<"()V">>
    /\ Len(m.name) > 2 /\ SubSeq(m.name, 1, 2) = <<"$$mcp", "_trace_">>
    /\ \A i \in 1..Len(UidOfProbe(m)) : UidOfProbe(m)[i] # "-"
    /\ UidOfProbe(m) \in MintedFieldUids
    /\ Opcodes(m) = IF "ACC_STATIC" \in f.access
                    THEN <<"GETSTATIC", "POP", "RETURN">>
                    ELSE <<"ACONST_NULL", "GETFIELD", "POP", "RETURN">>
    /\ \A n \in 1..Len(m.instructions) :
          m.instructions[n].kind = "FieldInsnNode" =>
              /\ m.instructions[n].owner = owner
              /\ m.instructions[n].name = f.name
              /\ m.instructions[n].desc = f.desc

C21_OneProbePerField ==
    [][TaintingClass =>
          /\ Cardinality(AddedMethods) = Len(FieldsToProbe)
          /\ \A j \in 1..Len(FieldsToProbe) :
                ProbeOf(ClassWritten.methods[Len(ClassRead.methods) + j],
                        FieldsToProbe[j], ClassWritten.name)
          /\ \A q, r \in AddedMethods :
                q # r => ClassWritten.methods[q].name # ClassWritten.methods[r].name
      ]_vars

\* taint_jar has written a class with a probe of a static field and a probe
\* of an instance field
C21_Witness ==
    /\ Tainted
    /\ \E k \in 1..Len(fs[hist.dst]) :
          /\ fs[hist.dst][k].data.cls
          /\ \E q, r \in 1..Len(fs[hist.dst][k].data.cn.methods) :
                /\ Opcodes(fs[hist.dst][k].data.cn.methods[q])
                      = <<"GETSTATIC", "POP", "RETURN">>
                /\ Opcodes(fs[hist.dst][k].data.cn.methods[r])
                      = <<"ACONST_NULL", "GETFIELD", "POP", "RETURN">>
                /\ fs[hist.dst][k].data.cn.methods[r].instructions[2].name = <<"y">>

(***************************************************************************)
(* C22.  In generate_tiny, for each method of a marked class whose name    *)
(* contains the probe prefix, the field uid is the text after the prefix;  *)
(* exactly one FIELD row is emitted when the method holds a field-access   *)
(* instruction and the uid is in the fields registry, its current-name     *)
(* column taken from the first field-access instruction; otherwise no row  *)
(* is emitted for the method, and the methods after it are still gone      *)
(* through.                                                                *)
(***************************************************************************)
HasProbeName(m) == find(m.name, <<"$$mcp", "_trace_">>) > 0

TextAfterPrefix(m) ==
    SubSeq(m.name, find(m.name, <<"$$mcp", "_trace_">>) + 2, Len(m.name))

FieldAccesses(m) == SelectSeq(m.instructions, LAMBDA i : i.kind = "FieldInsnNode")

\* the probe method m gives a row
ProbeResolves(m, reg) ==
    /\ HasProbeName(m)
    /\ FieldAccesses(m) # <<>>
    /\ TextAfterPrefix(m) \in DOMAIN reg.fields

\* the columns after the owner of the FIELD row of probe method m
ProbeColumns(m, reg) ==
    << reg.fields[TextAfterPrefix(m)].desc,
       reg.fields[TextAfterPrefix(m)].name,
       FieldAccesses(m)[1].name >>

\* the FIELD rows a step has added, without keyword and owner
AddedFieldColumns ==
    LET ls == SelectSeq(AddedLines, LAMBDA l : l[1] = "FIELD")
    IN  [k \in 1..Len(ls) |-> SubSeq(splitSym(ls[k], "\t"), 3, Len(splitSym(ls[k], "\t")))]

Without(s, i) == SubSeq(s, 1, i - 1) \o SubSeq(s, i + 1, Len(s))

\* field f marks a class named name
MarksClass(f, name, reg) ==
    /\ f.name = <<"__MCP_UUID__">>
    /\ f.access = {"ACC_PUBLIC", "ACC_STATIC", "ACC_FINAL"}
    /\ f.desc = <<"Ljava/lang/String;">>
    /\ f.value \in DOMAIN reg.classes
    /\ reg.classes[f.value].name = name

\* class after is class before with one field more, which marks it
OneMarkerMore(before, after, reg) ==
    /\ Len(after.fields) = Len(before.fields) + 1
    /\ \E i \in 1..Len(after.fields) :
          /\ Without(after.fields, i) = before.fields
          /\ MarksClass(after.fields[i], before.name, reg)
          /\ \A q \in 1..Len(before.fields) : before.fields[q].value # after.fields[i].value

C23_MarkerFieldAdded ==
    Tainted =>
        \A k \in 1..Len(fs[hist.dst]) :
            LET e == hist.X[hist.dst][k]
                parsed == e.filename[Len(e.filename)] = ".class"
                            /\ zipRead(hist.X[hist.dst], e.filename).cls
            IN  /\ fs[hist.dst][k].data.cls <=> parsed
                /\ parsed => OneMarkerMore(zipRead(hist.X[hist.dst], e.filename).cn,
                                           fs[hist.dst][k].data.cn, REGISTRY)

\* taint_jar has written a class that had two fields with three, and a
\* class that had none with one
C23_Witness ==
    /\ Tainted
    /\ \E k, h \in 1..Len(fs[hist.dst]) :
          /\ fs[hist.dst][k].data.cls /\ fs[hist.dst][h].data.cls
          /\ Len(fs[hist.dst][k].data.cn.fields) = 3
          /\ Len(fs[hist.dst][h].data.cn.fields) = 1
          /\ MarksClass(fs[hist.dst][k].data.cn.fields[3], fs[hist.dst][k].data.cn.name, REGISTRY)
          /\ MarksClass(fs[hist.dst][h].data.cn.fields[1], fs[hist.dst][h].data.cn.name, REGISTRY)

(***************************************************************************)
(* C24.  During generate_tiny the list of rows only grows by appending: a  *)
(* row that was emitted is never changed, moved or removed by the turn of  *)
(* a later entry, whether that entry parses, fails to parse, has no marker *)
(* or misses in the registry; the file written holds the rows as emitted.  *)
(***************************************************************************)
C24_RowsOnlyAppended ==
    [][(pc = "extract") =>
          /\ OnlyAppends
          /\ pc' = "idle" => (tiny_lines' = tiny_lines /\ tinyFile' = join(<<"\n">>, tiny_lines))
      ]_vars

\* rows were emitted, and after them came an entry that does not parse, a
\* class without marker or with an unknown marker, and the rows are in the
\* file
C24_Witness ==
    /\ pc = "idle" /\ hist.op = "extract"
    /\ Len(zin) = 2
    /\ Len(tiny_lines) > 2
    /\ LET e == zipRead(zin, zin[2].filename)
       IN  ~e.cls \/ Unmarked(e.cn, REGISTRY)
    /\ zipRead(zin, zin[1].filename).cls
    /\ ~Unmarked(zipRead(zin, zin[1].filename).cn, REGISTRY)
    /\ zin[1].filename # zin[2].filename
    /\ tinyFile = join(<<"\n">>, tiny_lines)

(***************************************************************************)
(* C25.  In the table every FIELD or METHOD row comes after the CLASS row  *)
(* of the class entry it was found in, with no CLASS row of another entry  *)
(* in between, and its owner column equals the original-name column of     *)
(* that CLASS row.                                                         *)
(***************************************************************************)
AddedRows == [k \in 1..Len(AddedLines) |-> splitSym(AddedLines[k], "\t")]

\* the rows one turn of the loop adds: none, or the CLASS row of the class
\* just read followed by FIELD and METHOD rows with its original name
C25_MemberRowsUnderTheirClassRow ==
    [][(pc = "extract" /\ pos <= Len(zin)) =>
          \/ AddedRows = <<>>
          \/ /\ ExtractingClass
             /\ AddedRows[1][1] = <<"CLASS">>
             /\ AddedRows[1][3] = zipRead(zin, zin[pos].filename).cn.name
             /\ \A k \in 2..Len(AddedRows) :
                   /\ AddedRows[k][1] \in {<<"FIELD">>, <<"METHOD">>}
                   /\ AddedRows[k][2] = AddedRows[1][2]
      ]_vars

\* in the table written, the rows of two classes, each with member rows of
\* its own owner
C25_Witness ==
    /\ pc = "idle" /\ hist.op = "extract"
    /\ \E c, d \in 2..Len(TableRows(tinyFile)) :
          /\ c + 1 < d
          /\ d < Len(TableRows(tinyFile))
          /\ TableRows(tinyFile)[c][1] = <<"CLASS">>
          /\ TableRows(tinyFile)[d][1] = <<"CLASS">>
          /\ TableRows(tinyFile)[c][2] # TableRows(tinyFile)[d][2]
          /\ \A k \in (c + 1)..(d - 1) :
                /\ TableRows(tinyFile)[k][1] \in {<<"FIELD">>, <<"METHOD">>}
                /\ TableRows(tinyFile)[k][2] = TableRows(tinyFile)[c][2]
          /\ \A k \in (d + 1)..Len(TableRows(tinyFile)) :
                /\ TableRows(tinyFile)[k][1] \in {<<"FIELD">>, <<"METHOD">>}
                /\ TableRows(tinyFile)[k][2] = TableRows(tinyFile)[d][2]

(***************************************************************************)
(* C26.  A class tainted in the session and not altered since gives        *)
(* exactly one CLASS row when generate_tiny reads it, whatever the names   *)
(* of its own fields, also when it declares a field that is not the marker *)
(* and whose name ends with __MCP_UUID__.                                  *)
(***************************************************************************)
\* generate_tiny is about to analyse a class as taint_jar wrote it, with one
\* marker field, whose uid the registry knows
ExtractingTaintedClass ==
    /\ ExtractingClass
    /\ hist.src = "tainted"
    /\ Len(MarkerFields(zipRead(zin, zin[pos].filename).cn)) = 1
    /\ ~Unmarked(zipRead(zin, zin[pos].filename).cn, REGISTRY)

C26_TaintedClassGivesOneClassRow ==
    [][ExtractingTaintedClass =>
          Len(SelectSeq(AddedLines, LAMBDA l : l[1] = "CLASS")) = 1]_vars

(***************************************************************************)
(* scripts/mcjar.py: download_cached and the cache directory under         *)
(* STORAGE_DIR.  A path is <<cache_key, name>>; a file is the sequence of  *)
(* chunks written to it.  The resource behind a url is the sequence of     *)
(* chunks resp.stream() yields when nothing fails.                         *)
(***************************************************************************)
MaxDownloads == 3

Urls == { <<"u1">>, <<"u2">> }

FileNames == { <<"cfr.jar">>, <<"client.json">> }

Body(url) == IF url = <<"u1">> THEN <<"c1", "c2">> ELSE <<"c3">>

\* sha1(url.encode("utf-8")).hexdigest(): different urls, different keys
sha1(url) == <<"sha1">> \o url

listdir(cache_dir) == DOMAIN storage[cache_dir]

exists(cache_dir) == cache_dir \in DOMAIN storage

\* the paths get_cached_file may return: None, or the first name that
\* os.listdir gives, in whatever order it lists the directory
get_cached_file(cache_key) ==
    IF exists(cache_key) /\ listdir(cache_key) # {}
    THEN { <<cache_key, name>> : name \in listdir(cache_key) }
    ELSE { None }

\* the assertion of make_cache_file
cacheDirFree(cache_key) == ~exists(cache_key) \/ listdir(cache_key) = {}

\* os.mkdir(cache_dir) unless the directory exists
make_cache_file(cache_key) ==
    IF exists(cache_key) THEN storage
    ELSE [d \in (DOMAIN storage) \cup {cache_key} |->
            IF d = cache_key THEN EmptyDict ELSE storage[d]]

\* the file at path holds data
written(path, data) ==
    [storage EXCEPT ![path[1]] = dictSet(@, path[2], data)]

\* download_cached(url, file_name) is called: a cache hit returns at once,
\* a miss makes the cache directory and goes on to download_file
DownloadCached(url, file_name) ==
    /\ dcall.pc = "idle"
    /\ downloads < MaxDownloads
    /\ downloads' = downloads + 1
    /\ \E path \in get_cached_file(sha1(url)) :
          IF path # None
          THEN /\ returned' = Append(returned, [url |-> url, path |-> path])
               /\ UNCHANGED <<storage, dcall>>
          ELSE IF ~cacheDirFree(sha1(url))
          THEN /\ dcall' = [pc |-> "AssertionError"]
               /\ UNCHANGED <<storage, returned>>
          ELSE /\ storage' = make_cache_file(sha1(url))
               /\ dcall' = [pc |-> "request", url |-> url,
                            path |-> <<sha1(url), file_name>>, cnt |-> 0]
               /\ UNCHANGED returned
    /\ UNCHANGED <<yarn, vars>>

\* download_file: the request raises, or the status is not 200
RequestFails ==
    /\ dcall.pc = "request"
    /\ dcall' = NoCall
    /\ UNCHANGED <<storage, returned, downloads, yarn, vars>>

\* download_file: status 200, and open(outpath, "wb") makes the empty file
RequestOk ==
    /\ dcall.pc = "request"
    /\ storage' = written(dcall.path, <<>>)
    /\ dcall' = [dcall EXCEPT !.pc = "stream"]
    /\ UNCHANGED <<returned, downloads, yarn, vars>>

\* download_file: one chunk of resp.stream() is written
WriteChunk ==
    /\ dcall.pc = "stream"
    /\ dcall.cnt < Len(Body(dcall.url))
    /\ storage' = written(dcall.path,
                          Append(storage[dcall.path[1]][dcall.path[2]],
                                 Body(dcall.url)[dcall.cnt + 1]))
    /\ dcall' = [dcall EXCEPT !.cnt = @ + 1]
    /\ UNCHANGED <<returned, downloads, yarn, vars>>

\* download_file: resp.stream() raises before the last chunk has come (the
\* connection is lost, the process is interrupted); the file is closed and
\* the exception leaves download_cached
StreamFails ==
    /\ dcall.pc = "stream"
    /\ dcall.cnt < Len(Body(dcall.url))
    /\ dcall' = NoCall
    /\ UNCHANGED <<storage, returned, downloads, yarn, vars>>

\* download_file returns, and download_cached returns the path
DownloadCompleted ==
    /\ dcall.pc = "stream"
    /\ dcall.cnt = Len(Body(dcall.url))
    /\ returned' = Append(returned, [url |-> dcall.url, path |-> dcall.path])
    /\ dcall' = NoCall
    /\ UNCHANGED <<storage, downloads, yarn, vars>>

\* jar_marker.py is not running
JarIdle ==
    /\ REGISTRY = EmptyRegistry
    /\ uuidCalls = 0
    /\ fs = [p \in {"input"} |-> <<>>]
    /\ tinyFile = None
    /\ pc = "idle"
    /\ zin = <<>>
    /\ zout = <<>>
    /\ pos = 1
    /\ tiny_lines = <<>>
    /\ calls = 0
    /\ hist = [op |-> "none"]

CacheInit ==
    /\ JarIdle
    /\ storage = EmptyDict
    /\ dcall = NoCall
    /\ returned = <<>>
    /\ downloads = 0
    /\ yarn = NoSearch

CacheNext ==
    \/ \E url \in Urls, file_name \in FileNames : DownloadCached(url, file_name)
    \/ RequestFails
    \/ RequestOk
    \/ WriteChunk
    \/ StreamFails
    \/ DownloadCompleted

CacheSpec == CacheInit /\ [][CacheNext]_<<vars, mcvars>>

(***************************************************************************)
(* C27.  In every sequence of download_cached calls, where a download may  *)
(* fail before or while the file is written, every path download_cached   *)
(* returns is that of a file whose download ran to completion (it holds    *)
(* the whole resource): a failed download never becomes a cache hit of a   *)
(* later call; and the assertion of make_cache_file never fails.           *)
(***************************************************************************)
FileAt(path) == storage[path[1]][path[2]]

C27_ReturnedFilesComplete ==
    /\ dcall.pc # "AssertionError"
    /\ \A k \in 1..Len(returned) : FileAt(returned[k].path) = Body(returned[k].url)

(***************************************************************************)
(* scripts/mcjar.py: _yarn_search and get_most_recent_yarn_url.  A version *)
(* is its sequence of characters; the two lists of versions are what the   *)
(* maven metadata of the two repositories hold.                            *)
(***************************************************************************)
MaxVersions == 2

Digits == {"0", "1", "2", "3", "4", "5", "6", "7", "8", "9"}

\* the number a digit stands for; the code points of the digits are in the
\* same order
digit(c) == CHOOSE n \in 0..9 : ToString(n) = c

\* a < b for Python strings of digits: the first place where they differ
\* decides, and a proper prefix is smaller
strLess(a, b) ==
    \E i \in 1..Len(b) :
        /\ \A h \in 1..(i - 1) : h <= Len(a) /\ a[h] = b[h]
        /\ i - 1 <= Len(a)
        /\ (i > Len(a) \/ digit(a[i]) < digit(b[i]))

\* x.split(c)[-1]: the text after the last c, or all of x
RECURSIVE splitLast(_, _)
splitLast(x, c) ==
    IF find(x, <<c>>) = 0 THEN x
    ELSE splitLast(SubSeq(x, find(x, <<c>>) + 1, Len(x)), c)

\* s.zfill(width) for a string without sign
RECURSIVE zfill(_, _)
zfill(s, width) == IF Len(s) >= width THEN s ELSE zfill(<<"0">> \o s, width)

\* the sort key of _yarn_search
key(x) == zfill(splitLast(x, "."), 3)

\* sorted(xs, key=key): stable, ascending
RECURSIVE insertSorted(_, _)
insertSorted(sortedXs, x) ==
    IF sortedXs = <<>> THEN <<x>>
    ELSE IF strLess(key(x), key(Head(sortedXs)))
         THEN <<x>> \o sortedXs
         ELSE <<Head(sortedXs)>> \o insertSorted(Tail(sortedXs), x)

RECURSIVE sorted(_)
sorted(xs) ==
    IF xs = <<>> THEN <<>>
    ELSE insertSorted(sorted(SubSeq(xs, 1, Len(xs) - 1)), xs[Len(xs)])

PLUS_BUILD == <<"+", "b", "u", "i", "l", "d">>

_yarn_search(versions, version_id) ==
    sorted(SelectSeq(versions, LAMBDA v : startsWith(v, version_id \o PLUS_BUILD)))

YARN_FABRIC_BASE == <<"https://maven.fabricmc.net/net/fabricmc/yarn/">>
YARN_LEGACY_BASE == <<"https://repo.legacyfabric.net/legacyfabric/net/legacyfabric/yarn/">>

yarnUrl(base, ver) == base \o ver \o <<"/yarn-">> \o ver \o <<"-tiny.gz">>

get_most_recent_yarn_url(version_id, modern_versions, legacy_versions) ==
    LET modern == _yarn_search(modern_versions, version_id)
        legacy == _yarn_search(legacy_versions, version_id)
    IN  IF Len(modern) > 0 THEN yarnUrl(YARN_FABRIC_BASE, modern[Len(modern)])
        ELSE IF Len(legacy) > 0 THEN yarnUrl(YARN_LEGACY_BASE, legacy[Len(legacy)])
        ELSE None

\* the versions the repositories may list, and the ids asked for
Version(id, build) == id \o PLUS_BUILD \o <<".">> \o build

Id114 == <<"1", ".", "1", "4">>
Id1144 == <<"1", ".", "1", "4", ".", "4">>
Id115 == <<"1", ".", "1", "5">>

YarnVersions ==
    { Version(Id114, <<"9">>), Version(Id114, <<"1", "0">>),
      Version(Id114, <<"9", "9", "9">>), Version(Id114, <<"1", "0", "0", "0">>),
      Version(Id1144, <<"2">>) }

VersionLists == UNION {[1..n -> YarnVersions] : n \in 0..MaxVersions}

\* get_most_recent_yarn_url(version_id) is called, the repositories listing
\* modern and legacy
YarnInit ==
    /\ JarIdle
    /\ storage = EmptyDict
    /\ dcall = NoCall
    /\ returned = <<>>
    /\ downloads = 0
    /\ \E version_id \in {Id114, Id1144, Id115} :
       \E modern \in VersionLists, legacy \in VersionLists :
          yarn = [state |-> "called", version_id |-> version_id,
                  modern |-> modern, legacy |-> legacy]

\* get_most_recent_yarn_url returns
GetMostRecentYarnUrl ==
    /\ yarn.state = "called"
    /\ yarn' = [state |-> "returned", version_id |-> yarn.version_id,
                modern |-> yarn.modern, legacy |-> yarn.legacy,
                url |-> get_most_recent_yarn_url(yarn.version_id, yarn.modern, yarn.legacy)]
    /\ UNCHANGED <<storage, dcall, returned, downloads, vars>>

YarnNext == GetMostRecentYarnUrl

YarnSpec == YarnInit /\ [][YarnNext]_<<vars, mcvars>>

(***************************************************************************)
(* C28.  get_most_recent_yarn_url(version_id) returns the URL of the       *)
(* version with the numerically largest build number among the modern      *)
(* versions that start with version_id + "+build"; only if no modern       *)
(* version matches, that of the largest-build legacy match; and None only  *)
(* if neither list has a match.  This holds for every build number, also   *)
(* those of four or more digits.                                           *)
(***************************************************************************)
RECURSIVE Number(_)
Number(ds) == IF ds = <<>> THEN 0 ELSE 10 * Number(SubSeq(ds, 1, Len(ds) - 1)) + digit(ds[Len(ds)])

\* the build number of a version: the digits after "+build."
BuildOf(v) == Number(SubSeq(v, find(v, PLUS_BUILD) + Len(PLUS_BUILD) + 1, Len(v)))

Matches(versions, version_id) ==
    { k \in 1..Len(versions) :
        /\ Len(versions[k]) >= Len(version_id) + Len(PLUS_BUILD)
        /\ SubSeq(versions[k], 1, Len(version_id) + Len(PLUS_BUILD)) = version_id \o PLUS_BUILD }

\* url is the URL under base of a match of the largest build number
UrlOfLargest(url, base, versions, version_id) ==
    \E k \in Matches(versions, version_id) :
        /\ \A h \in Matches(versions, version_id) : BuildOf(versions[h]) <= BuildOf(versions[k])
        /\ url = base \o versions[k] \o <<"/yarn-">> \o versions[k] \o <<"-tiny.gz">>

MostRecent(url, version_id, modern, legacy) ==
    IF Matches(modern, version_id) # {}
    THEN UrlOfLargest(url, YARN_FABRIC_BASE, modern, version_id)
    ELSE IF Matches(legacy, version_id) # {}
    THEN UrlOfLargest(url, YARN_LEGACY_BASE, legacy, version_id)
    ELSE url = None

C28_LargestBuild ==
    yarn.state = "returned" => MostRecent(yarn.url, yarn.version_id, yarn.modern, yarn.legacy)

====
